---- MODULE Spec2Model ----
(***************************************************************************)
(* Model of models/palm_detection_mediapipe/demo.py: the flag parser       *)
(* str2bool, the renderer visualize, and the __main__ block (image mode    *)
(* and camera loop).                                                       *)
(*                                                                         *)
(* Representation.                                                         *)
(*  - A real number (coordinate, score, fps) is a fixed-point integer: v   *)
(*    stands for v / Unit.                                                 *)
(*  - A command-line string is a sequence of one-character strings, so     *)
(*    that str.lower() is computed character by character.  Text that the  *)
(*    program only builds (labels, report lines) is a TLA+ string.         *)
(*  - A numpy image is a heap cell [rows, cols, base, ops]: base names the *)
(*    pixel content the buffer was filled with and ops is the sequence of  *)
(*    cv drawing calls applied to that buffer since.  The pixels are a     *)
(*    function of the cell, so equal cells are pixel-equal buffers.        *)
(*    Variables holding images hold references (indices into heap), as     *)
(*    Python names do.                                                     *)
(***************************************************************************)
EXTENDS Integers, Sequences, FiniteSets, TLC

VARIABLES
    pc,             \* position of the script: "parse", "main", image/camera steps
    argv,           \* the command line: [input, save, vis], each Absent or Given(s)
    args,           \* the parsed namespace [input, save, vis]
    exc,            \* the uncaught exception that ended the script / the call
    heap,           \* image buffers
    frame,          \* the script's image (image mode) / frame (camera mode) reference
    image,          \* visualize's parameter image (a reference)
    results,        \* visualize's parameter results
    print_results,  \* visualize's parameter print_results
    fps,            \* visualize's parameter fps (NoFps or SomeFps(v))
    output,         \* visualize's local output (a reference, NoRef before copy)
    idx,            \* number of palms of results the loop has completed
    vpc,            \* position inside visualize: idle/enter/loop/returned/raised
    stdout,         \* lines printed so far
    files,          \* cv.imwrite calls so far: <<[name, content]>>
    shown,          \* the last cv.imshow call: <<[name, content]>>, <<>> before any
    tm,             \* the TickMeter: [counter, sum]
    cam             \* camera bookkeeping, see CamInit

vars == <<pc, argv, args, exc, heap, frame, image, results, print_results, fps,
          output, idx, vpc, stdout, files, shown, tm, cam>>

\* no exception
None == "None"
\* an optional float (fps=None or fps=<value>): <<>> or <<value>>
NoFps == <<>>
SomeFps(v) == <<v>>
\* the null reference
NoRef == 0

\* Fixed-point denominator: four decimal places.
Unit == 100 * 100

\* a command-line option: not given, or given with the string s
Absent == [given |-> FALSE, s |-> <<>>]
Given(s) == [given |-> TRUE, s |-> s]

\* Python values held by the namespace: a str, a bool, or None
PyStr(s) == [t |-> "str", s |-> s, b |-> FALSE]
PyBool(b) == [t |-> "bool", s |-> <<>>, b |-> b]
PyNone == [t |-> "none", s |-> <<>>, b |-> FALSE]

NoArgv == [input |-> Absent, save |-> Absent, vis |-> Absent]
NoArgs == [input |-> PyNone, save |-> PyNone, vis |-> PyNone]

(***************************************************************************)
(* Bounds                                                                  *)
(***************************************************************************)
\* longest detection list handed to visualize
MaxDet == 2
\* frames the camera delivers before it reports that none was grabbed
MaxFrames == 2

(***************************************************************************)
(* str2bool                                                                *)
(***************************************************************************)
UpperChars == <<"A","B","C","D","E","F","G","H","I","J","K","L","M",
                "N","O","P","Q","R","S","T","U","V","W","X","Y","Z">>
LowerChars == <<"a","b","c","d","e","f","g","h","i","j","k","l","m",
                "n","o","p","q","r","s","t","u","v","w","x","y","z">>

LowerChar(c) ==
    IF \E i \in 1..26 : UpperChars[i] = c
    THEN LowerChars[CHOOSE i \in 1..26 : UpperChars[i] = c]
    ELSE c

UpperChar(c) ==
    IF \E i \in 1..26 : LowerChars[i] = c
    THEN UpperChars[CHOOSE i \in 1..26 : LowerChars[i] = c]
    ELSE c

\* a mutant of Lower: the comparison is made on the string as given
LowerIdentity(v) == v

\* v.lower()
Lower(v) == [i \in 1..Len(v) |-> LowerChar(v[i])]

TrueWords == {<<"o","n">>, <<"y","e","s">>, <<"t","r","u","e">>, <<"y">>, <<"t">>}
FalseWords == {<<"o","f","f">>, <<"n","o">>, <<"f","a","l","s","e">>, <<"n">>, <<"f">>}

\* the outcome of str2bool(v): a returned value or a raised exception
str2bool(v) ==
    IF Lower(v) \in TrueWords THEN [ret |-> TRUE, exc |-> None]
    ELSE IF Lower(v) \in FalseWords THEN [ret |-> FALSE, exc |-> None]
    ELSE [ret |-> FALSE, exc |-> "NotImplementedError"]

(***************************************************************************)
(* Numeric and text helpers used by visualize                              *)
(***************************************************************************)
Min(a, b) == IF a < b THEN a ELSE b
Max(a, b) == IF a > b THEN a ELSE b
Abs(a) == IF a < 0 THEN -a ELSE a

\* s[start:stop] for start >= 0 (stop may be negative, counted from the end)
PySlice(s, start, stop) ==
    LET n == Len(s)
        hi == IF stop < 0 THEN Max(n + stop, 0) ELSE Min(stop, n)
    IN SubSeq(s, Min(start, n) + 1, hi)

\* a mutant of Reshape72: reshape(-1, 2) on as many whole pairs as there are
ReshapePairs(s) ==
    [exc |-> None,
     rows |-> [i \in 1..(Len(s) \div 2) |-> <<s[2 * i - 1], s[2 * i]>>]]

\* s.reshape(7, 2): the array must hold exactly 14 values
Reshape72(s) ==
    IF Len(s) = 7 * 2
    THEN [exc |-> None, rows |-> [i \in 1..7 |-> <<s[2 * i - 1], s[2 * i]>>]]
    ELSE [exc |-> "ValueError", rows |-> <<>>]

\* v.astype(np.int32): the fraction is dropped (truncation toward zero)
AsInt32(v) == IF v >= 0 THEN v \div Unit ELSE -((-v) \div Unit)

AsInt32Array(a) == [i \in 1..Len(a) |-> AsInt32(a[i])]

RECURSIVE ZeroPad(_, _)
ZeroPad(s, w) == IF Len(s) >= w THEN s ELSE ZeroPad("0" \o s, w)

RECURSIVE SpacePad(_, _)
SpacePad(s, w) == IF Len(s) >= w THEN s ELSE SpacePad(" " \o s, w)

Pow10(d) == CASE d = 0 -> 1 [] d = 1 -> 10 [] d = 2 -> 100 [] d = 3 -> 1000 [] d = 4 -> Unit

\* '{:.<d>f}'.format(v) for d <= 4.  Rounding is to nearest; the inputs of
\* this model avoid exact decimal ties, whose direction depends on the binary
\* value of the float.
FormatFixed(v, d) ==
    LET q == Unit \div Pow10(d)
        r == (Abs(v) + (q \div 2)) \div q
    IN (IF v < 0 /\ r > 0 THEN "-" ELSE "")
       \o ToString(r \div Pow10(d)) \o "." \o ZeroPad(ToString(r % Pow10(d)), d)

RECURSIVE SeqMax(_)
SeqMax(s) == IF s = <<>> THEN 0 ELSE Max(Head(s), SeqMax(Tail(s)))

RECURSIVE JoinSpace(_)
JoinSpace(s) ==
    IF s = <<>> THEN ""
    ELSE IF Len(s) = 1 THEN Head(s)
    ELSE Head(s) \o " " \o JoinSpace(Tail(s))

\* '{}'.format(a) for a one-dimensional integer array: numpy right-justifies
\* every element to the width of the widest one
ArrayStr(a) ==
    LET w == SeqMax([i \in 1..Len(a) |-> Len(ToString(a[i]))])
    IN "[" \o JoinSpace([i \in 1..Len(a) |-> SpacePad(ToString(a[i]), w)]) \o "]"

(***************************************************************************)
(* Drawing calls                                                           *)
(***************************************************************************)
Red == <<0, 0, 255>>
Green == <<0, 255, 0>>

putText(text, org, fontFace, fontScale, color) ==
    [fn |-> "putText", text |-> text, org |-> org, fontFace |-> fontFace,
     fontScale |-> fontScale, color |-> color]

rectangle(pt1, pt2, color, thickness) ==
    [fn |-> "rectangle", pt1 |-> pt1, pt2 |-> pt2, color |-> color,
     thickness |-> thickness]

circle(center, radius, color, thickness) ==
    [fn |-> "circle", center |-> center, radius |-> radius, color |-> color,
     thickness |-> thickness]

\* the buffer at ref after the drawing calls calls are applied to it
Draw(h, ref, calls) == [h EXCEPT ![ref].ops = @ \o calls]

\* a mutant of Copy: np.zeros_like(image), a blank buffer of the same shape
CopyBlank(h, ref) == [heap |-> Append(h, [h[ref] EXCEPT !.base = "zeros"]), ref |-> Len(h) + 1]

\* a mutant of Copy: output is bound to the caller's buffer
CopyAlias(h, ref) == [heap |-> h, ref |-> ref]

\* image.copy(): a new buffer with the same content
Copy(h, ref) == [heap |-> Append(h, h[ref]), ref |-> Len(h) + 1]

\* a mutant of FpsGiven: a truthiness test, which takes 0.0 for absent
FpsTruthy(f) == f # NoFps /\ f # SomeFps(0)

\* fps is not None
FpsGiven(f) == f # NoFps

\* the label drawn for fps
FpsLabel(f) ==
    putText("FPS: " \o FormatFixed(f[1], 2), <<0, 15>>, "FONT_HERSHEY_SIMPLEX", "0.5", Red)

\* a mutant of ReportBlock: the palm is numbered by the enumerate index
ReportBlockZeroBased(k, score, palm_box, palm_landmarks) ==
    <<"-----------palm " \o ToString(k - 1) \o "-----------",
      "score: " \o FormatFixed(score, 2),
      "palm box: " \o ArrayStr(palm_box),
      "palm landmarks: ">>
    \o [i \in 1..Len(palm_landmarks) |-> "\t" \o ArrayStr(palm_landmarks[i])]

\* the lines printed for the k-th palm (k = idx + 1)
ReportBlock(k, score, palm_box, palm_landmarks) ==
    <<"-----------palm " \o ToString(k) \o "-----------",
      "score: " \o FormatFixed(score, 2),
      "palm box: " \o ArrayStr(palm_box),
      "palm landmarks: ">>
    \o [i \in 1..Len(palm_landmarks) |-> "\t" \o ArrayStr(palm_landmarks[i])]

\* the drawing calls of one loop iteration
PalmCalls(score, palm_box, palm_landmarks) ==
    <<putText(FormatFixed(score, 4), <<palm_box[1], palm_box[2] + 12>>,
              "FONT_HERSHEY_DUPLEX", "0.5", Green),
      rectangle(<<palm_box[1], palm_box[2]>>, <<palm_box[3], palm_box[4]>>, Green, 2)>>
    \o [i \in 1..Len(palm_landmarks) |-> circle(palm_landmarks[i], 2, Red, 2)]

(***************************************************************************)
(* visualize(image, results, print_results, fps)                           *)
(***************************************************************************)
\* lines 40-43: copy the image, draw the fps label on the copy
VisualizeEnter ==
    /\ vpc = "enter"
    /\ LET c == Copy(heap, image)
       IN /\ output' = c.ref
          /\ heap' = IF FpsGiven(fps)
                     THEN Draw(c.heap, c.ref, <<FpsLabel(fps)>>)
                     ELSE c.heap
    /\ idx' = 0
    /\ vpc' = "loop"
    /\ UNCHANGED <<image, results, print_results, fps, stdout>>

\* lines 45-69: one iteration of the loop over results
VisualizeIter ==
    /\ vpc = "loop"
    /\ idx < Len(results)
    /\ LET palm == results[idx + 1]
           lm == Reshape72(PySlice(palm, 4, -1))
       IN IF Len(palm) = 0
          THEN \* palm[-1] of an empty record
               /\ vpc' = "raised"
               /\ exc' = "IndexError"
               /\ UNCHANGED <<heap, idx, stdout>>
          ELSE IF lm.exc # None
          THEN /\ vpc' = "raised"
               /\ exc' = lm.exc
               /\ UNCHANGED <<heap, idx, stdout>>
          ELSE LET score == palm[Len(palm)]
                   palm_box == AsInt32Array(PySlice(palm, 0, 4))
                   palm_landmarks == [i \in 1..Len(lm.rows) |-> AsInt32Array(lm.rows[i])]
               IN /\ heap' = Draw(heap, output, PalmCalls(score, palm_box, palm_landmarks))
                  /\ stdout' = IF print_results
                               THEN stdout \o ReportBlock(idx + 1, score, palm_box, palm_landmarks)
                               ELSE stdout
                  /\ idx' = idx + 1
                  /\ UNCHANGED <<vpc, exc>>
    /\ UNCHANGED <<image, results, print_results, fps, output>>

\* line 71: return output
VisualizeReturn ==
    /\ vpc = "loop"
    /\ idx = Len(results)
    /\ vpc' = "returned"
    /\ UNCHANGED <<heap, image, results, print_results, fps, output, idx, stdout>>

(***************************************************************************)
(* Inputs                                                                  *)
(***************************************************************************)
Frame(rows, cols, base) == [rows |-> rows, cols |-> cols, base |-> base, ops |-> <<>>]
Area(f) == f.rows * f.cols

\* one detection record: 4 box values, 7 landmark pairs, the score
Palm(box, pts, score) ==
    box \o [i \in 1..(2 * Len(pts)) |-> pts[(i + 1) \div 2][2 - (i % 2)]] \o <<score>>

\* box (10, 10, 50, 50), seven landmarks at (30, 30), score 0.9912
PalmA ==
    Palm(<<10 * Unit, 10 * Unit, 50 * Unit, 50 * Unit>>,
         [i \in 1..7 |-> <<30 * Unit, 30 * Unit>>], 9912)

\* fractional and negative coordinates, score 0.4978
PalmB ==
    Palm(<<-(Unit \div 2), 20 * Unit + 7500, 60 * Unit + 5000, 105 * Unit>>,
         [i \in 1..7 |-> <<(30 + i) * Unit + 5000, -(i * Unit) - 2500>>], 4978)

\* PalmA with only 3 box coordinates: 18 values
PalmShort == Tail(PalmA)

\* PalmA with one value too many: 20 values
PalmLong == <<0>> \o PalmA

Palms == {PalmA, PalmB, PalmShort, PalmLong, <<>>}

RECURSIVE SeqsUpTo(_, _)
SeqsUpTo(S, n) ==
    IF n = 0 THEN {<<>>}
    ELSE LET shorter == SeqsUpTo(S, n - 1)
         IN shorter \cup {Append(s, x) : s \in {t \in shorter : Len(t) = n - 1}, x \in S}

ResultLists == SeqsUpTo(Palms, MaxDet)

VisFrames == {Frame(100, 100, "scene"), Frame(0, 0, "empty"), Frame(0, 100, "empty")}

FpsValues == {NoFps, SomeFps(0), SomeFps(25 * Unit)}

CamInit == [grabbed |-> 0, inferred |-> 0, rendered |-> 0, displayed |-> 0,
            elapsed |-> 0, ended |-> FALSE]

\* a call of visualize on arbitrary arguments
InitVisualize ==
    /\ pc = "call"
    /\ argv = NoArgv /\ args = NoArgs /\ exc = None
    /\ \E f \in VisFrames : heap = <<f>>
    /\ frame = 1
    /\ image = 1
    /\ results \in ResultLists
    /\ print_results \in BOOLEAN
    /\ fps \in FpsValues
    /\ output = NoRef
    /\ idx = 0
    /\ vpc = "enter"
    /\ stdout = <<>>
    /\ files = <<>> /\ shown = <<>>
    /\ tm = [counter |-> 0, sum |-> 0]
    /\ cam = CamInit

NextVisualize ==
    \/ VisualizeEnter /\ UNCHANGED <<pc, argv, args, exc, frame, files, shown, tm, cam>>
    \/ VisualizeIter /\ UNCHANGED <<pc, argv, args, frame, files, shown, tm, cam>>
    \/ VisualizeReturn /\ UNCHANGED <<pc, argv, args, exc, frame, files, shown, tm, cam>>

SpecVisualize == InitVisualize /\ [][NextVisualize]_vars

(***************************************************************************)
(* The script: argument parsing and the __main__ block                     *)
(***************************************************************************)
Chars_True == <<"T","r","u","e">>
Chars_False == <<"F","a","l","s","e">>
Chars_Path == <<"a",".","j","p","g">>

\* bool(x) for the values the namespace holds
Truthy(x) ==
    CASE x.t = "str" -> x.s # <<>>
      [] x.t = "bool" -> x.b
      [] OTHER -> FALSE

\* the condition of line 94
SaveRequested(a) == Truthy(a.save)

\* cv.getTickFrequency(), ticks per second
TicksPerSecond == 10 * 100

\* tm.getFPS(): counter / seconds, 0 when no time was measured
GetFPS(t) == IF t.sum = 0 THEN 0 ELSE (t.counter * TicksPerSecond * Unit) \div t.sum

\* a mutant of TmReset: the meter keeps accumulating
TmKeep(t) == t

\* tm.reset()
TmReset(t) == [counter |-> 0, sum |-> 0]

\* tm.start() ... tm.stop() around an inference of e ticks
TmMeasure(t, e) == [counter |-> t.counter + 1, sum |-> t.sum + e]

\* inference times, in ticks
ElapsedTicks == {20, 40}

\* frames the frame source decodes or grabs
MainFrames == {Frame(100, 100, "scene")}

callUnchanged == <<image, results, print_results, fps, output, idx, vpc>>
progUnchanged == <<pc, argv, args, frame, files, shown, tm, cam>>

\* line 37: parser.parse_args(); --vis goes through str2bool, --save and
\* --input are kept as given, absent options take their defaults
ParseArgs ==
    /\ pc = "parse"
    /\ LET v == IF argv.vis.given THEN str2bool(argv.vis.s) ELSE [ret |-> TRUE, exc |-> None]
       IN IF v.exc # None
          THEN /\ pc' = "crashed"
               /\ exc' = v.exc
               /\ UNCHANGED args
          ELSE /\ pc' = "main"
               /\ args' = [input |-> IF argv.input.given THEN PyStr(argv.input.s) ELSE PyNone,
                           save |-> IF argv.save.given THEN PyStr(argv.save.s) ELSE PyBool(FALSE),
                           vis |-> PyBool(v.ret)]
               /\ UNCHANGED exc
    /\ UNCHANGED <<argv, heap, frame, stdout, files, shown, tm, cam>>
    /\ UNCHANGED callUnchanged

\* lines 82-83: image = cv.imread(args.input)
ImageRead ==
    /\ pc = "main"
    /\ args.input # PyNone
    /\ \E f \in MainFrames : heap' = <<f>>
    /\ frame' = 1
    /\ pc' = "img_infer"
    /\ UNCHANGED <<argv, args, exc, stdout, files, shown, tm, cam>>
    /\ UNCHANGED callUnchanged

\* lines 86-88: results = model.infer(image)
ImageInfer ==
    /\ pc = "img_infer"
    /\ \E r \in ResultLists :
        /\ results' = r
        /\ stdout' = IF Len(r) = 0 THEN Append(stdout, "Hand not detected") ELSE stdout
    /\ pc' = "img_call"
    /\ UNCHANGED <<argv, args, exc, heap, frame, files, shown, tm, cam>>
    /\ UNCHANGED <<image, print_results, fps, output, idx, vpc>>

\* line 91, the call: visualize(image, results, print_results=True)
ImageCall ==
    /\ pc = "img_call"
    /\ image' = frame
    /\ print_results' = TRUE
    /\ fps' = NoFps
    /\ output' = NoRef
    /\ idx' = 0
    /\ vpc' = "enter"
    /\ pc' = "img_in_visualize"
    /\ UNCHANGED <<argv, args, exc, heap, frame, results, stdout, files, shown, tm, cam>>

\* line 91, the assignment: image = <returned output>
ImageAssign ==
    /\ pc = "img_in_visualize"
    /\ vpc = "returned"
    /\ frame' = output
    /\ vpc' = "idle"
    /\ pc' = "img_save"
    /\ UNCHANGED <<argv, args, exc, heap, stdout, files, shown, tm, cam>>
    /\ UNCHANGED <<image, results, print_results, fps, output, idx>>

\* an exception of visualize is not caught: the script ends
CallRaised ==
    /\ pc \in {"img_in_visualize", "cam_in_visualize"}
    /\ vpc = "raised"
    /\ vpc' = "idle"
    /\ pc' = "crashed"
    /\ UNCHANGED <<argv, args, exc, heap, frame, stdout, files, shown, tm, cam>>
    /\ UNCHANGED <<image, results, print_results, fps, output, idx>>

\* lines 94-96: if args.save: print(...); cv.imwrite('result.jpg', image)
ImageSave ==
    /\ pc = "img_save"
    /\ IF SaveRequested(args)
       THEN /\ stdout' = stdout \o <<"Resutls saved to result.jpg", "">>
            /\ files' = Append(files, [name |-> "result.jpg", content |-> heap[frame]])
       ELSE UNCHANGED <<stdout, files>>
    /\ pc' = "img_show"
    /\ UNCHANGED <<argv, args, exc, heap, frame, shown, tm, cam>>
    /\ UNCHANGED callUnchanged

\* lines 99-102: if args.vis: imshow(args.input, image); waitKey(0)
ImageShow ==
    /\ pc = "img_show"
    /\ shown' = IF Truthy(args.vis)
                THEN <<[name |-> args.input.s, content |-> heap[frame]]>>
                ELSE shown
    /\ pc' = "done"
    /\ UNCHANGED <<argv, args, exc, heap, frame, stdout, files, tm, cam>>
    /\ UNCHANGED callUnchanged

\* lines 103-107: cap = cv.VideoCapture(0); tm = cv.TickMeter()
CamOpen ==
    /\ pc = "main"
    /\ args.input = PyNone
    /\ tm' = [counter |-> 0, sum |-> 0]
    /\ pc' = "cam_wait"
    /\ UNCHANGED <<argv, args, exc, heap, frame, stdout, files, shown, cam>>
    /\ UNCHANGED callUnchanged

\* line 108: while cv.waitKey(1) < 0
CamWaitKey ==
    /\ pc = "cam_wait"
    /\ \E keyPressed \in BOOLEAN :
        pc' = IF keyPressed THEN "done" ELSE "cam_read"
    /\ UNCHANGED <<argv, args, exc, heap, frame, stdout, files, shown, tm, cam>>
    /\ UNCHANGED callUnchanged

\* line 110: if not hasFrame
LoopEnds(hasFrame) == ~hasFrame

\* lines 109-112: hasFrame, frame = cap.read(); break when nothing was grabbed.
\* Buffers of earlier iterations are unreachable from here on and are dropped.
CamRead ==
    /\ pc = "cam_read"
    /\ \E hasFrame \in {b \in BOOLEAN : b => cam.grabbed < MaxFrames} :
        IF LoopEnds(hasFrame)
        THEN /\ stdout' = Append(stdout, "No frames grabbed!")
             /\ cam' = [cam EXCEPT !.ended = TRUE]
             /\ pc' = "done"
             /\ UNCHANGED <<heap, frame>>
        ELSE /\ \E f \in MainFrames : heap' = <<f>>
             /\ frame' = 1
             /\ cam' = [cam EXCEPT !.grabbed = @ + 1]
             /\ pc' = "cam_infer"
             /\ UNCHANGED stdout
    /\ UNCHANGED <<argv, args, exc, files, shown, tm>>
    /\ UNCHANGED callUnchanged

\* lines 115-117: tm.start(); results = model.infer(frame); tm.stop()
CamInfer ==
    /\ pc = "cam_infer"
    /\ \E r \in ResultLists, e \in ElapsedTicks :
        /\ results' = r
        /\ tm' = TmMeasure(tm, e)
        /\ cam' = [cam EXCEPT !.inferred = @ + 1, !.elapsed = e]
    /\ pc' = "cam_call"
    /\ UNCHANGED <<argv, args, exc, heap, frame, stdout, files, shown>>
    /\ UNCHANGED <<image, print_results, fps, output, idx, vpc>>

\* line 120, the call: visualize(frame, results, fps=tm.getFPS())
CamCall ==
    /\ pc = "cam_call"
    /\ image' = frame
    /\ print_results' = FALSE
    /\ fps' = SomeFps(GetFPS(tm))
    /\ output' = NoRef
    /\ idx' = 0
    /\ vpc' = "enter"
    /\ cam' = [cam EXCEPT !.rendered = @ + 1]
    /\ pc' = "cam_in_visualize"
    /\ UNCHANGED <<argv, args, exc, heap, frame, results, stdout, files, shown, tm>>

\* line 120, the assignment: frame = <returned output>
CamAssign ==
    /\ pc = "cam_in_visualize"
    /\ vpc = "returned"
    /\ frame' = output
    /\ vpc' = "idle"
    /\ pc' = "cam_show"
    /\ UNCHANGED <<argv, args, exc, heap, stdout, files, shown, tm, cam>>
    /\ UNCHANGED <<image, results, print_results, fps, output, idx>>

\* line 123: cv.imshow('MPPalmDet Demo', frame)
CamShow ==
    /\ pc = "cam_show"
    /\ shown' = <<[name |-> "MPPalmDet Demo", content |-> heap[frame]]>>
    /\ cam' = [cam EXCEPT !.displayed = @ + 1]
    /\ pc' = "cam_reset"
    /\ UNCHANGED <<argv, args, exc, heap, frame, stdout, files, tm>>
    /\ UNCHANGED callUnchanged

\* line 125: tm.reset()
CamReset ==
    /\ pc = "cam_reset"
    /\ tm' = TmReset(tm)
    /\ pc' = "cam_wait"
    /\ UNCHANGED <<argv, args, exc, heap, frame, stdout, files, shown, cam>>
    /\ UNCHANGED callUnchanged

(***************************************************************************)
(* Specifications                                                          *)
(***************************************************************************)
idleCall ==
    /\ heap = <<>> /\ frame = NoRef /\ image = NoRef /\ results = <<>>
    /\ print_results = FALSE /\ fps = NoFps /\ output = NoRef /\ idx = 0
    /\ vpc = "idle" /\ stdout = <<>> /\ files = <<>> /\ shown = <<>>
    /\ tm = [counter |-> 0, sum |-> 0] /\ cam = CamInit

\* the script from its command line
InitMain ==
    /\ pc = "parse"
    /\ argv \in [input : {Absent, Given(Chars_Path)},
                 save : {Absent, Given(Chars_True), Given(Chars_False), Given(<<>>)},
                 vis : {Absent, Given(Chars_False), Given(<<"m","a","y","b","e">>)}]
    /\ args = NoArgs /\ exc = None
    /\ idleCall

NextMain ==
    \/ ParseArgs
    \/ ImageRead
    \/ ImageInfer
    \/ ImageCall
    \/ ImageAssign
    \/ CallRaised
    \/ ImageSave
    \/ ImageShow
    \/ CamOpen
    \/ CamWaitKey
    \/ CamRead
    \/ CamInfer
    \/ CamCall
    \/ CamAssign
    \/ CamShow
    \/ CamReset
    \/ VisualizeEnter /\ pc # "call" /\ UNCHANGED progUnchanged /\ UNCHANGED exc
    \/ VisualizeIter /\ pc # "call" /\ UNCHANGED progUnchanged
    \/ VisualizeReturn /\ pc # "call" /\ UNCHANGED progUnchanged /\ UNCHANGED exc

SpecMain == InitMain /\ [][NextMain]_vars

\* every way of writing a recognised word, and strings that are none
CaseVariants(w) ==
    {v \in [1..Len(w) -> {w[i] : i \in 1..Len(w)} \cup {UpperChar(w[i]) : i \in 1..Len(w)}] :
        \A i \in 1..Len(w) : v[i] \in {w[i], UpperChar(w[i])}}

OtherStrings ==
    {<<>>, <<"m","a","y","b","e">>, <<"0">>, <<"1">>, <<"t","r","u">>, <<"y","e","s","s">>,
     <<" ","o","n">>, <<"o","n"," ">>, <<"n","o","n","e">>, <<"o","f">>, <<"T","R","U","E","!">>,
     <<"e","n","a","b","l","e">>}

BoolInputs == UNION {CaseVariants(w) : w \in TrueWords \cup FalseWords} \cup OtherStrings

\* parse_args on every --vis value
InitStr2bool ==
    /\ pc = "parse"
    /\ \E v \in BoolInputs : argv = [input |-> Absent, save |-> Absent, vis |-> Given(v)]
    /\ args = NoArgs /\ exc = None
    /\ idleCall

SpecStr2bool == InitStr2bool /\ [][ParseArgs]_vars

(***************************************************************************)
(* Properties                                                              *)
(***************************************************************************)
\* values of one detection record: 4 box values, 14 landmark values, the score
RecordLen == 4 + 14 + 1

Entered == vpc \in {"loop", "returned", "raised"}

\* the fps label among the drawing calls: the only red text
IsFpsLabel(op) == op.fn = "putText" /\ op.color = Red

\* drawing calls made for detections
PalmOps(ops) == SelectSeq(ops, LAMBDA op : ~IsFpsLabel(op))

\* C1: visualize never changes the buffer it was given: every step leaves the
\* caller's buffer as it was, and once the copy is made the drawing target is
\* a different buffer from the input.
InputFrameNeverMutated ==
    /\ [](Entered => output # image /\ output \in DOMAIN heap)
    /\ [][image' = image /\ heap'[image] = heap[image]]_vars

\* C1 witness: a returned call that drew on its output and left the input bare
DrewOnCopyOnly ==
    /\ vpc = "returned"
    /\ Len(heap[output].ops) > 1
    /\ heap[image].ops = <<>>

\* C2: a record with only 3 box coordinates (one value short) is never drawn
\* or reported, the call never returns a frame, and the call ends with the
\* shape error of the reshape when the loop reaches that record.
ShortRecordRaises ==
    \A k \in 1..Len(results) :
        Len(results[k]) = RecordLen - 1 =>
            /\ vpc # "returned"
            /\ idx < k
            /\ (vpc = "raised" /\ idx = k - 1 => exc = "ValueError")

\* C2 witness: the call has failed on the record with 3 box coordinates
RaisedOnShortRecord ==
    /\ vpc = "raised"
    /\ exc = "ValueError"
    /\ results[idx + 1] = PalmShort

\* C3 (as claimed): when a reporting call on a non-empty frame fails, nothing
\* has been drawn or reported for any detection of that call.
FailsBeforeAnyDetectionOutput ==
    (vpc = "raised" /\ print_results /\ Area(heap[image]) > 0) =>
        stdout = <<>> /\ PalmOps(heap[output].ops) = <<>>

\* C4 (as claimed): a call on a frame of zero area does not return a frame.
ZeroAreaFrameRejected ==
    Area(heap[image]) = 0 => vpc # "returned"

\* C5: with zero detections and no fps the returned frame equals the input
\* frame (same shape, same pixels) and nothing is printed, whatever
\* print_results is.
NoDetectionsNoFpsIdentity ==
    (vpc = "returned" /\ results = <<>> /\ fps = NoFps) =>
        /\ heap[output] = heap[image]
        /\ heap[output].rows = heap[image].rows
        /\ heap[output].cols = heap[image].cols
        /\ stdout = <<>>

\* C5 witness: such a call returned with print_results set
ReturnedBareCopy ==
    /\ vpc = "returned"
    /\ results = <<>>
    /\ fps = NoFps
    /\ print_results
    /\ Area(heap[image]) > 0

\* C6: the fps label is drawn exactly when fps is given: with fps = 0.0 the
\* first drawing call is the text "FPS: 0.00" at (0, 15), with fps = None no
\* fps text is drawn, and a given fps yields exactly one label.
FpsLabelIffGiven ==
    Entered =>
        LET ops == heap[output].ops
            labels == SelectSeq(ops, IsFpsLabel)
        IN /\ (fps = NoFps => labels = <<>>)
           /\ (fps # NoFps => Len(labels) = 1 /\ ops[1] = labels[1] /\ ops[1].org = <<0, 15>>)
           /\ (fps = SomeFps(0) => ops[1].text = "FPS: 0.00")

\* C6 witness: a returned call with fps = 0.0 and detections, label drawn
ReturnedWithZeroFpsLabel ==
    /\ vpc = "returned"
    /\ fps = SomeFps(0)
    /\ results # <<>>
    /\ heap[output].ops[1].text = "FPS: 0.00"

\* the report lines expected for the k-th record, read off the record itself
ExpectedBlock(k, palm) ==
    <<"-----------palm " \o ToString(k) \o "-----------",
      "score: " \o FormatFixed(palm[RecordLen], 2),
      "palm box: " \o ArrayStr(<<AsInt32(palm[1]), AsInt32(palm[2]),
                                 AsInt32(palm[3]), AsInt32(palm[4])>>),
      "palm landmarks: ">>
    \o [i \in 1..7 |-> "\t" \o ArrayStr(<<AsInt32(palm[3 + 2 * i]), AsInt32(palm[4 + 2 * i])>>)]

\* the block printed for PalmA as the k-th record, written out
PalmABlock(k) ==
    <<"-----------palm " \o ToString(k) \o "-----------",
      "score: 0.99",
      "palm box: [10 10 50 50]",
      "palm landmarks: ",
      "\t[30 30]", "\t[30 30]", "\t[30 30]", "\t[30 30]", "\t[30 30]", "\t[30 30]", "\t[30 30]">>

RECURSIVE ExpectedReport(_, _)
ExpectedReport(rs, n) ==
    IF n = 0 THEN <<>> ELSE ExpectedReport(rs, n - 1) \o ExpectedBlock(n, rs[n])

\* C7 (as claimed): every block is 10 lines: separator, score, box, then the
\* 7 landmark lines.
ReportBlocksOfTenLines ==
    (vpc = "returned" /\ print_results) =>
        /\ Len(stdout) = 10 * Len(results)
        /\ \A k \in 1..Len(results) :
            /\ stdout[10 * (k - 1) + 1] = "-----------palm " \o ToString(k) \o "-----------"
            /\ stdout[10 * (k - 1) + 2] = "score: " \o FormatFixed(results[k][RecordLen], 2)
            /\ \A i \in 1..7 :
                stdout[10 * (k - 1) + 3 + i] =
                    "\t" \o ArrayStr(<<AsInt32(results[k][3 + 2 * i]), AsInt32(results[k][4 + 2 * i])>>)

\* C7 (amended): what has been printed is, at every moment, one block per
\* completed detection, in input order, numbered from 1; a block is the
\* separator, the score, the integer box, the line "palm landmarks: " and the
\* 7 landmark lines; a returned call has completed every detection; nothing
\* is printed when print_results is false.
ReportFollowsDetections ==
    /\ stdout = IF print_results THEN ExpectedReport(results, idx) ELSE <<>>
    /\ (vpc = "returned" => idx = Len(results))
    /\ (print_results =>
            \A k \in 1..idx :
                results[k] = PalmA => SubSeq(stdout, 11 * (k - 1) + 1, 11 * k) = PalmABlock(k))

\* C7 witness: a returned call that reported two detections
ReportedTwoBlocks ==
    /\ vpc = "returned"
    /\ print_results
    /\ results = <<PalmB, PalmA>>
    /\ Len(stdout) = 22

\* v is w with each letter in either case
IsCaseVariant(v, w) ==
    /\ Len(v) = Len(w)
    /\ \A i \in 1..Len(w) : v[i] = w[i] \/ v[i] = UpperChar(w[i])

\* C8: every case variant of on/yes/true/y/t parses to True, every case
\* variant of off/no/false/n/f to False, and any other string ends the parse
\* with NotImplementedError and no value.
Str2boolRecognisesLiterals ==
    (pc # "parse" /\ argv.vis.given) =>
        LET v == argv.vis.s
        IN /\ (\E w \in TrueWords : IsCaseVariant(v, w)) =>
                pc = "main" /\ args.vis = PyBool(TRUE) /\ exc = None
           /\ (\E w \in FalseWords : IsCaseVariant(v, w)) =>
                pc = "main" /\ args.vis = PyBool(FALSE) /\ exc = None
           /\ (~\E w \in TrueWords \cup FalseWords : IsCaseVariant(v, w)) =>
                pc = "crashed" /\ exc = "NotImplementedError" /\ args = NoArgs

\* C8 witness: a mixed-case literal was parsed
ParsedMixedCaseYes ==
    /\ pc = "main"
    /\ argv.vis = Given(<<"Y","e","S">>)
    /\ args.vis = PyBool(TRUE)

\* C9 (as claimed): result.jpg is written only when --save was given as "True".
SavedOnlyWhenTrue ==
    files # <<>> => argv.save = Given(Chars_True)

camBefore == {"cam_wait", "cam_read", "cam_reset"}

\* C10: in the camera loop a frame is read, then inferred, then rendered with
\* the fps of that inference alone, then displayed; the rendered frame is the
\* one displayed; after the source reported no frame nothing more happens.
CameraLoopOrder ==
    /\ [](/\ (pc \in camBefore =>
                cam.inferred = cam.grabbed /\ cam.rendered = cam.grabbed
                /\ cam.displayed = cam.grabbed)
          /\ (pc = "cam_infer" =>
                cam.inferred + 1 = cam.grabbed /\ cam.rendered + 1 = cam.grabbed
                /\ cam.displayed + 1 = cam.grabbed)
          /\ (pc = "cam_call" =>
                cam.inferred = cam.grabbed /\ cam.rendered + 1 = cam.grabbed
                /\ cam.displayed + 1 = cam.grabbed)
          /\ (pc \in {"cam_in_visualize", "cam_show"} =>
                cam.inferred = cam.grabbed /\ cam.rendered = cam.grabbed
                /\ cam.displayed + 1 = cam.grabbed)
          /\ (pc = "cam_in_visualize" =>
                /\ fps = SomeFps((TicksPerSecond * Unit) \div cam.elapsed)
                /\ ~print_results)
          /\ (pc = "cam_reset" =>
                /\ shown[1].content = heap[output]
                /\ heap[output].ops[1] = FpsLabel(fps))
          /\ (cam.ended => pc = "done" /\ cam.displayed = cam.grabbed
                /\ cam.inferred = cam.grabbed /\ cam.rendered = cam.grabbed))
    /\ [][cam.ended => UNCHANGED vars]_vars

\* C10 witness: two frames of different inference time were displayed and the
\* source then reported no frame
CameraEndedAfterTwoFrames ==
    /\ cam.ended
    /\ cam.displayed = 2
    /\ cam.elapsed = 40
    /\ fps = SomeFps(25 * Unit)

====
